---- MODULE Spec2Model ----
(***************************************************************************)
(* Notification fan-out of utils/interface.py: safeformat, the             *)
(* NotificationHandler / QueuedNotificationHandler pair with its worker    *)
(* thread, and the NotificationManager broadcast.                          *)
(*                                                                         *)
(* Strings are sequences of one-character strings, so that formatting is   *)
(* computed character by character the way str.format_map computes it.     *)
(***************************************************************************)
EXTENDS Integers, Sequences, FiniteSets, TLC

(***************************************************************************)
(* Strings                                                                 *)
(***************************************************************************)
Digits == {"0", "1", "2", "3", "4", "5", "6", "7", "8", "9"}

DigitVal(c) == CASE c = "0" -> 0 [] c = "1" -> 1 [] c = "2" -> 2 [] c = "3" -> 3
                 [] c = "4" -> 4 [] c = "5" -> 5 [] c = "6" -> 6 [] c = "7" -> 7
                 [] c = "8" -> 8 [] OTHER -> 9

\* get_integer of the format machinery: the value of an all-digit string, -1 otherwise
RECURSIVE GetInteger(_)
GetInteger(s) ==
    IF s = <<>> \/ \E i \in 1..Len(s) : s[i] \notin Digits THEN -1
    ELSE IF Len(s) = 1 THEN DigitVal(s[1])
    ELSE 10 * GetInteger(SubSeq(s, 1, Len(s) - 1)) + DigitVal(s[Len(s)])

\* first position >= i of t holding a character of cs; Len(t) + 1 when there is none
RECURSIVE Find(_, _, _)
Find(t, i, cs) ==
    IF i > Len(t) THEN Len(t) + 1
    ELSE IF t[i] \in cs THEN i
    ELSE Find(t, i + 1, cs)

(***************************************************************************)
(* str.format_map as safeformat uses it.  A result is a record             *)
(* [err, out]: err = "none" and out the formatted string, or err the       *)
(* class of the exception raised.                                          *)
(***************************************************************************)
Ok(s) == [err |-> "none", out |-> s]
Raise(e) == [err |-> e, out |-> <<>>]

\* SafeDict.__missing__
SafeDictMissing(key) == <<"{">> \o key \o <<"}">>

\* replacements[key] on the SafeDict built from kwargs
SafeDictGet(P, key) == IF key \in DOMAIN P THEN P[key] ELSE SafeDictMissing(key)

\* repr() of a str without quotes, backslashes or control characters
Repr(s) == <<"'">> \o s \o <<"'">>

\* The accessors after the first part of a field name ( .attr and [item] ),
\* applied left to right to the str object obj: FieldNameIterator_next and
\* the getattr / getitem of get_field_object.
RECURSIVE Accessors(_, _, _)
Accessors(rest, i, obj) ==
    IF i > Len(rest) THEN Ok(obj)
    ELSE IF rest[i] = "." THEN
        LET e == Find(rest, i + 1, {".", "["})
        IN  IF e = i + 1 THEN Raise("ValueError")        \* empty attribute
            ELSE Raise("AttributeError")                 \* a str has no such attribute
    ELSE IF rest[i] = "[" THEN
        LET e    == Find(rest, i + 1, {"]"})
            name == SubSeq(rest, i + 1, e - 1)
            idx  == GetInteger(name)
        IN  IF e > Len(rest) THEN Raise("ValueError")    \* missing ']'
            ELSE IF name = <<>> THEN Raise("ValueError") \* empty attribute
            ELSE IF idx = -1 THEN Raise("TypeError")     \* str index is not an integer
            ELSE IF idx >= Len(obj) THEN Raise("IndexError")
            ELSE Accessors(rest, e + 1, <<obj[idx + 1]>>)
    ELSE Raise("ValueError")                             \* only '.' or '[' may follow ']'

\* get_field_object: the object a field name denotes; format_map has no
\* positional arguments, so an empty or numeric first part is an error
GetFieldObject(name, P) ==
    LET e     == Find(name, 1, {".", "["})
        first == SubSeq(name, 1, e - 1)
    IN  IF first = <<>> \/ GetInteger(first) # -1 THEN Raise("ValueError")
        ELSE Accessors(name, e, SafeDictGet(P, first))

\* the conversion after '!' ("" when there is none)
Convert(conv, s) ==
    IF conv \in {"", "s"} THEN Ok(s)
    ELSE IF conv \in {"r", "a"} THEN Ok(Repr(s))
    ELSE Raise("ValueError")

\* render_field: look the object up, convert it, format it.  Only the empty
\* format specification is modelled; any other one yields "FormatSpec".
RenderField(name, conv, spec, P) ==
    LET o == GetFieldObject(name, P)
    IN  IF o.err # "none" THEN o
        ELSE IF Convert(conv, o.out).err # "none" THEN Convert(conv, o.out)
        ELSE IF spec # <<>> THEN Raise("FormatSpec")
        ELSE Convert(conv, o.out)

\* end of the field name that starts at s: parse_field's first loop.  The
\* result is the position of the terminating '}', ':' or '!', 0 for an
\* unexpected '{', Len(t) + 1 when the string ends first.
RECURSIVE FieldNameEnd(_, _)
FieldNameEnd(t, s) ==
    IF s > Len(t) THEN Len(t) + 1
    ELSE IF t[s] = "{" THEN 0
    ELSE IF t[s] = "[" THEN
        LET b == Find(t, s + 1, {"]"})
        IN  IF b > Len(t) THEN Len(t) + 1 ELSE FieldNameEnd(t, b + 1)
    ELSE IF t[s] \in {"}", ":", "!"} THEN s
    ELSE FieldNameEnd(t, s + 1)

\* end of the format specification that starts at s with count open braces:
\* the position of the closing '}', Len(t) + 1 when it is unmatched
RECURSIVE FormatSpecEnd(_, _, _)
FormatSpecEnd(t, s, count) ==
    IF s > Len(t) THEN Len(t) + 1
    ELSE IF t[s] = "{" THEN FormatSpecEnd(t, s + 1, count + 1)
    ELSE IF t[s] = "}" THEN (IF count = 1 THEN s ELSE FormatSpecEnd(t, s + 1, count - 1))
    ELSE FormatSpecEnd(t, s + 1, count)

\* parse_field for the field whose name starts at s:
\* [err, name, conv, spec, next], next the position after the field
ParseField(t, s) ==
    LET e    == FieldNameEnd(t, s)
        bad  == [err |-> "ValueError", name |-> <<>>, conv |-> "", spec |-> <<>>, next |-> 0]
        name == SubSeq(t, s, e - 1)
        WithSpec(conv, from) ==
            LET f == FormatSpecEnd(t, from, 1)
            IN  IF f > Len(t) THEN bad
                ELSE [err |-> "none", name |-> name, conv |-> conv,
                      spec |-> SubSeq(t, from, f - 1), next |-> f + 1]
    IN  IF e = 0 \/ e > Len(t) THEN bad
        ELSE IF t[e] = "}" THEN
            [err |-> "none", name |-> name, conv |-> "", spec |-> <<>>, next |-> e + 1]
        ELSE IF t[e] = ":" THEN WithSpec("", e + 1)
        ELSE \* '!'
            IF e + 1 > Len(t) THEN bad
            ELSE IF e + 2 > Len(t) THEN WithSpec(t[e + 1], e + 2)
            ELSE IF t[e + 2] = "}" THEN
                [err |-> "none", name |-> name, conv |-> t[e + 1], spec |-> <<>>,
                 next |-> e + 3]
            ELSE IF t[e + 2] # ":" THEN bad
            ELSE WithSpec(t[e + 1], e + 3)

\* MarkupIterator_next and the loop of build_string, from position i of t
RECURSIVE FormatFrom(_, _, _)
FormatFrom(t, i, P) ==
    LET j == Find(t, i, {"{", "}"})
    IN  IF j > Len(t) THEN Ok(SubSeq(t, i, Len(t)))
        ELSE IF t[j] = "}" /\ (j = Len(t) \/ t[j + 1] # "}") THEN Raise("ValueError")
        ELSE IF j = Len(t) THEN Raise("ValueError")      \* single '{' at the end
        ELSE IF t[j + 1] = t[j] THEN                     \* '{{' or '}}'
            LET r == FormatFrom(t, j + 2, P)
            IN  IF r.err # "none" THEN r ELSE Ok(SubSeq(t, i, j) \o r.out)
        ELSE
            LET f == ParseField(t, j + 1)
                v == RenderField(f.name, f.conv, f.spec, P)
                r == FormatFrom(t, f.next, P)
            IN  IF f.err # "none" THEN Raise(f.err)
                ELSE IF v.err # "none" THEN v
                ELSE IF r.err # "none" THEN r
                ELSE Ok(SubSeq(t, i, j - 1) \o v.out \o r.out)

FormatMap(t, P) == FormatFrom(t, 1, P)

\* the keyword argument that collides with safeformat's own parameter
StrParam == <<"s", "t", "r">>

\* safeformat(str, **kwargs): kwargs holding a key "str" cannot be bound
safeformat(t, P) ==
    IF StrParam \in DOMAIN P THEN Raise("TypeError") ELSE FormatMap(t, P)


(***************************************************************************)
(* Events, templates and handler objects                                   *)
(***************************************************************************)
EventType == {"message", "start", "registered", "shutdown", "crash",
              "player_join", "player_leave", "command"}

DEFAULT_EVENT_FORMATS == [k \in EventType |-> CASE
       k = "message" -> <<"[", "{", "n", "a", "m", "e", "}", "]", " ", "{", "m", "e", "s", "s", "a", "g", "e", "}">>
    [] k = "start" -> <<"[", "{", "n", "a", "m", "e", "}", "]", " ", "S", "e", "r", "v", "e", "r", " ", "s", "t", "a", "r", "t", "e", "d", "!">>
    [] k = "registered" -> <<"[", "{", "n", "a", "m", "e", "}", "]", " ", "S", "e", "r", "v", "e", "r", " ", "r", "e", "g", "i", "s", "t", "e", "r", "e", "d", " ", "w", "i", "t", "h", " ", "P", "l", "a", "y", "f", "a", "b", "!">>
    [] k = "shutdown" -> <<"[", "{", "n", "a", "m", "e", "}", "]", " ", "S", "e", "r", "v", "e", "r", " ", "s", "h", "u", "t", "d", "o", "w", "n", "!">>
    [] k = "crash" -> <<"[", "{", "n", "a", "m", "e", "}", "]", " ", "S", "e", "r", "v", "e", "r", " ", "c", "r", "a", "s", "h", "e", "d", "!">>
    [] k = "player_join" -> <<"[", "{", "n", "a", "m", "e", "}", "]", " ", "P", "l", "a", "y", "e", "r", " ", "'", "{", "p", "l", "a", "y", "e", "r", "}", "'", " ", "j", "o", "i", "n", "e", "d", " ", "t", "h", "e", " ", "g", "a", "m", "e">>
    [] k = "player_leave" -> <<"[", "{", "n", "a", "m", "e", "}", "]", " ", "P", "l", "a", "y", "e", "r", " ", "'", "{", "p", "l", "a", "y", "e", "r", "}", "'", " ", "l", "e", "f", "t", " ", "t", "h", "e", " ", "g", "a", "m", "e">>
    [] k = "command" -> <<"[", "{", "n", "a", "m", "e", "}", "]", " ", "C", "o", "m", "m", "a", "n", "d", " ", "e", "x", "e", "c", "u", "t", "e", "d", ":", " ", "{", "c", "o", "m", "m", "a", "n", "d", "}">>]

NameKey    == <<"n", "a", "m", "e">>
MessageKey == <<"m", "e", "s", "s", "a", "g", "e">>

\* A mapping restricted to some of its keys (a dict literal built from the defaults)
Restrict(f, S) == [k \in S |-> f[k]]

\* The handler objects of the model.  box is a NotificationHandler, srv a
\* QueuedNotificationHandler, both constructed with a whitelist and templates
\* of their own; bak is a QueuedNotificationHandler constructed with the
\* defaults.
Handlers == {"box", "srv", "bak"}
Queued   == {"srv", "bak"}

\* NotificationHandler.__init__: self.name
HandlerName(h) ==
    CASE h = "box" -> <<"B", "o", "x">>
      [] h = "srv" -> <<"S", "r", "v">>
      [] OTHER     -> <<"S", "e", "r", "v", "e", "r">>

\* NotificationHandler.__init__: self.whitelist
Whitelist(h) ==
    CASE h = "box" -> {"message", "start", "crash"}
      [] h = "srv" -> {"message", "start", "crash"}
      [] OTHER     -> EventType

\* NotificationHandler.__init__: self.formats
Formats(h) ==
    CASE h = "box" -> Restrict(DEFAULT_EVENT_FORMATS, {"message", "crash"})
      [] h = "srv" -> [k \in {"message", "start", "shutdown"} |->
                         IF k = "start" THEN <<"u", "p", " ", "{", "0", "}">>
                         ELSE DEFAULT_EVENT_FORMATS[k]]
      [] OTHER     -> DEFAULT_EVENT_FORMATS

\* What an invocation of _handle_message can do.  The base method sleeps and
\* returns; an override in a subclass may also raise or never return.
BaseSink  == {"return"}
FlakySink == {"return", "raise", "hang"}

(***************************************************************************)
(* Inputs                                                                  *)
(***************************************************************************)
MaxSends    == 3     \* NotificationManager.send_event calls in a behaviour
MaxHandlers == 3     \* length of the manager's collection

Producers == {"p1", "p2"}

NoParams == <<>>

\* the send_event calls the producers make: (event_type, **params)
Calls == {
    [kind |-> "message",  params |-> NoParams],
    [kind |-> "message",  params |-> (NameKey :> <<"E", "v", "e">>) @@ (MessageKey :> <<"y", "o">>)],
    [kind |-> "start",    params |-> NoParams],
    [kind |-> "crash",    params |-> NoParams],
    [kind |-> "shutdown", params |-> NoParams] }

(***************************************************************************)
(* State                                                                   *)
(***************************************************************************)
VARIABLES
    fcall,      \* the latest safeformat call: its template, its keyword
                \* arguments and its result (NoResult while it has not run)
    conf,       \* the fields of each handler object: self.name, self.whitelist
                \* and self.formats
    objs,       \* the handler objects the program has constructed
    sink,       \* what the _handle_message of each queued handler can do
    handlers,   \* NotificationManager.handlers
    added,      \* history: the handlers passed to add_handler since the last
                \* clear (since construction when there was none), in call order
    sends,      \* number of NotificationManager.send_event calls made so far
    pc,         \* where each producer thread is: "idle", "iter" (in the for
                \* loop of NotificationManager.send_event), "set" (in add_event,
                \* after the put and before wakeup_event.set()), "raising" (an
                \* exception is leaving NotificationManager.send_event)
    frame,      \* the arguments of the producer's send_event call, the number
                \* of handlers its loop is done with, the exception in flight
    result,     \* how the producer's last send_event call ended: "none",
                \* "running", "returned" or the class of the exception raised
    visited,    \* history: the handler send_event calls made by the call
    printed,    \* standard output: the number of lines print has written and
                \* the last of them (NotificationHandler._send_message)
    queue,      \* NotificationThread.event_queue of each queued handler
    flag,       \* NotificationThread.wakeup_event of each queued handler
    wpc,        \* where each worker thread is in NotificationThread.run
    cur,        \* the local variable event of NotificationThread.run
    active,     \* number of _handle_message invocations in progress
    enq,        \* history: the items put on each queue, in put order
    entered,    \* history: how many items had been put on the queue when the
                \* latest _handle_message invocation was entered
    handled     \* history: the items passed to _handle_message, in call order

vars == <<fcall, conf, objs, sink, handlers, added, sends, pc, frame, result, visited, printed,
          queue, flag, wpc, cur, active, enq, entered, handled>>

mgrVars    == <<fcall, conf, objs, sink, handlers, added, sends, pc, frame, result, visited, printed>>
workerVars == <<wpc, cur, active, entered, handled>>

\* NotificationHandler.__init__: the fields of handler h as constructed
Constructed(h) == [name |-> HandlerName(h), whitelist |-> Whitelist(h), formats |-> Formats(h)]

NoResult == [err |-> "pending", out |-> <<>>]
NoCall == [t |-> <<>>, P |-> NoParams, res |-> NoResult]
NoEvent == <<"", <<>>>>
NoFrame == [kind |-> "", params |-> NoParams, idx |-> 0, exc |-> "none"]

\* The state once the program has constructed the handler objects S, with
\* _handle_message behaving as K says, and a NotificationManager to which it
\* has added the handlers R in that order; each queued handler's thread is
\* started by its constructor and stands at the top of run.
InitWith(S, K, R) ==
    /\ fcall = NoCall
    /\ conf = [h \in Handlers |-> Constructed(h)]
    /\ objs = S
    /\ sink = K
    /\ handlers = R
    /\ added = R
    /\ sends = 0
    /\ pc = [p \in Producers |-> "idle"]
    /\ frame = [p \in Producers |-> NoFrame]
    /\ result = [p \in Producers |-> "none"]
    /\ visited = [p \in Producers |-> <<>>]
    /\ printed = [n |-> 0, last |-> <<>>]
    /\ queue = [h \in Queued |-> <<>>]
    /\ flag = [h \in Queued |-> FALSE]
    /\ wpc = [h \in Queued |-> "check"]
    /\ cur = [h \in Queued |-> NoEvent]
    /\ active = [h \in Queued |-> 0]
    /\ enq = [h \in Queued |-> <<>>]
    /\ entered = [h \in Queued |-> 0]
    /\ handled = [h \in Queued |-> <<>>]

Init == InitWith({"box", "srv"}, [h \in Queued |-> FlakySink], <<>>)

(***************************************************************************)
(* NotificationHandler.send_event, up to its call of _send_message         *)
(***************************************************************************)
InWhitelistAlways(h, k) == TRUE

\* event_type in self.whitelist
InWhitelist(h, k) == k \in conf[h].whitelist

\* params["name"] = self.name
InjectName(h, P) == (NameKey :> conf[h].name) @@ P

\* whether self.formats[event_type] finds an entry
HasFormat(h, k) == k \in DOMAIN conf[h].formats

\* send_event with the template looked up as self.formats.get(event_type, "")
HandlerSendEventDefaulting(h, k, P) ==
    IF ~InWhitelist(h, k) THEN [status |-> "skip", err |-> "none", msg |-> <<>>]
    ELSE LET m == safeformat(IF HasFormat(h, k) THEN conf[h].formats[k] ELSE <<>>,
                            InjectName(h, P))
         IN  IF m.err # "none" THEN [status |-> "raise", err |-> m.err, msg |-> <<>>]
             ELSE [status |-> "send", err |-> "none", msg |-> m.out]

\* The outcome of send_event(k, **P) on handler h: "skip" (not whitelisted,
\* nothing done), "raise" (err is the exception class) or "send"
\* (_send_message(k, msg) is invoked).
HandlerSendEvent(h, k, P) ==
    IF ~InWhitelist(h, k) THEN [status |-> "skip", err |-> "none", msg |-> <<>>]
    ELSE IF ~HasFormat(h, k) THEN [status |-> "raise", err |-> "KeyError", msg |-> <<>>]
    ELSE LET m == safeformat(conf[h].formats[k], InjectName(h, P))
         IN  IF m.err # "none" THEN [status |-> "raise", err |-> m.err, msg |-> <<>>]
             ELSE [status |-> "send", err |-> "none", msg |-> m.out]

(***************************************************************************)
(* Queue and Event primitives                                              *)
(***************************************************************************)
\* Queue.put on the unbounded Queue(): never blocks
QueuePutReadyBounded(q) == Len(q) < 1
QueuePutReady(q) == TRUE

\* Queue.put: the item goes to the back
QueuePutFront(q, item) == <<item>> \o q
QueuePut(q, item) == Append(q, item)

\* Queue.empty
QueueEmptyOffByOne(q) == Len(q) <= 1
QueueEmpty(q) == q = <<>>

\* Queue.get: blocks while the queue is empty, then removes the oldest item
QueueGetReady(q) == q # <<>>
QueueFront(q) == Head(q)
QueueRestKeeping(q) == q
QueueRest(q) == Tail(q)

(***************************************************************************)
(* NotificationManager                                                     *)
(***************************************************************************)
\* Some producer is inside NotificationManager.send_event.  Mutating the
\* collection while it is iterated is excluded: callers serialise these calls.
MgrBusy == \E p \in Producers : pc[p] # "idle"

\* an add_handler that keeps one entry per handler
add_handlerOnce(h) ==
    /\ h \in objs
    /\ ~MgrBusy
    /\ Len(handlers) < MaxHandlers
    /\ handlers' = IF \E i \in 1..Len(handlers) : handlers[i] = h
                   THEN handlers ELSE Append(handlers, h)
    /\ added' = Append(added, h)
    /\ UNCHANGED <<fcall, conf, objs, sink, sends, pc, frame, result, visited, printed,
                   queue, flag, enq, workerVars>>

\* self.handlers.append(handler)
add_handler(h) ==
    /\ h \in objs
    /\ ~MgrBusy
    /\ Len(handlers) < MaxHandlers
    /\ handlers' = Append(handlers, h)
    /\ added' = Append(added, h)
    /\ UNCHANGED <<fcall, conf, objs, sink, sends, pc, frame, result, visited, printed,
                   queue, flag, enq, workerVars>>

\* self.handlers.clear()
clear ==
    /\ ~MgrBusy
    /\ handlers' = <<>>
    /\ added' = <<>>
    /\ UNCHANGED <<fcall, conf, objs, sink, sends, pc, frame, result, visited, printed,
                   queue, flag, enq, workerVars>>

\* NotificationManager.send_event(k, **P) is called by producer p
send_event(p, k, P) ==
    /\ pc[p] = "idle"
    /\ sends < MaxSends
    /\ sends' = sends + 1
    /\ pc' = [pc EXCEPT ![p] = "iter"]
    /\ frame' = [frame EXCEPT ![p] = [kind |-> k, params |-> P, idx |-> 0, exc |-> "none"]]
    /\ result' = [result EXCEPT ![p] = "running"]
    /\ UNCHANGED <<fcall, conf, objs, sink, handlers, added, visited, printed, queue, flag, enq, workerVars>>

\* the handler the loop of producer p calls next, and what that call does
InLoop(p)  == pc[p] = "iter" /\ frame[p].idx < Len(handlers)
Target(p)  == handlers[frame[p].idx + 1]
Outcome(p) == HandlerSendEvent(Target(p), frame[p].kind, frame[p].params)

\* the record of a handler call in visited
Visit(p, st) == [pos |-> frame[p].idx + 1, h |-> Target(p), kind |-> frame[p].kind,
                 params |-> frame[p].params, state |-> st]

NextIndexSkipping(i) == i + 2

\* the position the loop takes after position i
NextIndex(i) == i + 1

\* handler.send_event returns at once: the kind is not in the whitelist
CallSkip(p) ==
    /\ InLoop(p)
    /\ Outcome(p).status = "skip"
    /\ frame' = [frame EXCEPT ![p].idx = NextIndex(@)]
    /\ visited' = [visited EXCEPT ![p] = Append(@, Visit(p, "returned"))]
    /\ UNCHANGED <<fcall, conf, objs, sink, handlers, added, sends, pc, result, printed,
                   queue, flag, enq, workerVars>>

\* handler.send_event raises: the exception enters the manager's loop
CallRaise(p) ==
    /\ InLoop(p)
    /\ Outcome(p).status = "raise"
    /\ pc' = [pc EXCEPT ![p] = "raising"]
    /\ frame' = [frame EXCEPT ![p].exc = Outcome(p).err]
    /\ visited' = [visited EXCEPT ![p] = Append(@, Visit(p, "raised"))]
    /\ UNCHANGED <<fcall, conf, objs, sink, handlers, added, sends, result, printed, queue, flag, enq, workerVars>>

\* the loop going on with the next handler after a handler's send_event raised
PropagateSwallowing(p) ==
    /\ pc[p] = "raising"
    /\ pc' = [pc EXCEPT ![p] = "iter"]
    /\ frame' = [frame EXCEPT ![p] = [@ EXCEPT !.idx = NextIndex(@), !.exc = "none"]]
    /\ UNCHANGED <<fcall, conf, objs, sink, handlers, added, sends, result, visited, printed,
                   queue, flag, enq, workerVars>>

\* the for loop has no try: the exception leaves NotificationManager.send_event
\* and reaches its caller
Propagate(p) ==
    /\ pc[p] = "raising"
    /\ pc' = [pc EXCEPT ![p] = "idle"]
    /\ result' = [result EXCEPT ![p] = frame[p].exc]
    /\ frame' = [frame EXCEPT ![p] = NoFrame]
    /\ visited' = [visited EXCEPT ![p] = <<>>]
    /\ UNCHANGED <<fcall, conf, objs, sink, handlers, added, sends, printed, queue, flag, enq, workerVars>>

\* print(message): one more line on standard output
PrintLine(out, line) == [n |-> out.n + 1, last |-> line]

\* a send_event that keeps the formatted message as the kind's template
CallPrintCaching(p) ==
    /\ InLoop(p)
    /\ Outcome(p).status = "send"
    /\ Target(p) \notin Queued
    /\ printed' = PrintLine(printed, Outcome(p).msg)
    /\ conf' = [conf EXCEPT ![Target(p)].formats[frame[p].kind] = Outcome(p).msg]
    /\ frame' = [frame EXCEPT ![p].idx = NextIndex(@)]
    /\ visited' = [visited EXCEPT ![p] = Append(@, Visit(p, "returned"))]
    /\ UNCHANGED <<fcall, objs, sink, handlers, added, sends, pc, result, queue,
                   flag, enq, workerVars>>

\* NotificationHandler._send_message: print(message)
CallPrint(p) ==
    /\ InLoop(p)
    /\ Outcome(p).status = "send"
    /\ Target(p) \notin Queued
    /\ printed' = PrintLine(printed, Outcome(p).msg)
    /\ frame' = [frame EXCEPT ![p].idx = NextIndex(@)]
    /\ visited' = [visited EXCEPT ![p] = Append(@, Visit(p, "returned"))]
    /\ UNCHANGED <<fcall, conf, objs, sink, handlers, added, sends, pc, result, queue, flag, enq, workerVars>>

\* a _send_message that hands a dead worker's failure to the next sender
CallPutRethrowing(p) ==
    /\ InLoop(p)
    /\ Outcome(p).status = "send"
    /\ Target(p) \in Queued
    /\ IF wpc[Target(p)] = "dead"
       THEN /\ pc' = [pc EXCEPT ![p] = "raising"]
            /\ frame' = [frame EXCEPT ![p].exc = "RuntimeError"]
            /\ visited' = [visited EXCEPT ![p] = Append(@, Visit(p, "raised"))]
            /\ UNCHANGED <<queue, enq>>
       ELSE /\ queue' = [queue EXCEPT ![Target(p)] = QueuePut(@, <<frame[p].kind, Outcome(p).msg>>)]
            /\ enq' = [enq EXCEPT ![Target(p)] = Append(@, <<frame[p].kind, Outcome(p).msg>>)]
            /\ pc' = [pc EXCEPT ![p] = "set"]
            /\ visited' = [visited EXCEPT ![p] = Append(@, Visit(p, "active"))]
            /\ UNCHANGED frame
    /\ UNCHANGED <<fcall, conf, objs, sink, handlers, added, sends, result, printed, flag, workerVars>>

\* QueuedNotificationHandler._send_message -> add_event: event_queue.put
CallPut(p) ==
    /\ InLoop(p)
    /\ Outcome(p).status = "send"
    /\ Target(p) \in Queued
    /\ QueuePutReady(queue[Target(p)])
    /\ LET item == <<frame[p].kind, Outcome(p).msg>>
       IN  /\ queue' = [queue EXCEPT ![Target(p)] = QueuePut(@, item)]
           /\ enq' = [enq EXCEPT ![Target(p)] = Append(@, item)]
    /\ pc' = [pc EXCEPT ![p] = "set"]
    /\ visited' = [visited EXCEPT ![p] = Append(@, Visit(p, "active"))]
    /\ UNCHANGED <<fcall, conf, objs, sink, handlers, added, sends, frame, result, printed, flag, workerVars>>

\* an add_event that returns without wakeup_event.set()
AddEventSetOmitted(p) ==
    /\ pc[p] = "set"
    /\ pc' = [pc EXCEPT ![p] = "iter"]
    /\ frame' = [frame EXCEPT ![p].idx = NextIndex(@)]
    /\ visited' = [visited EXCEPT ![p][Len(visited[p])].state = "returned"]
    /\ UNCHANGED <<fcall, conf, objs, sink, handlers, added, sends, result, printed,
                   queue, flag, enq, workerVars>>

\* add_event: wakeup_event.set(), after which add_event, _send_message and
\* the handler's send_event return to the loop
AddEventSet(p) ==
    /\ pc[p] = "set"
    /\ flag' = [flag EXCEPT ![Target(p)] = TRUE]
    /\ pc' = [pc EXCEPT ![p] = "iter"]
    /\ frame' = [frame EXCEPT ![p].idx = NextIndex(@)]
    /\ visited' = [visited EXCEPT ![p][Len(visited[p])].state = "returned"]
    /\ UNCHANGED <<fcall, conf, objs, sink, handlers, added, sends, result, printed, queue, enq, workerVars>>

\* the for loop is exhausted: NotificationManager.send_event returns
Return(p) ==
    /\ pc[p] = "iter"
    /\ frame[p].idx >= Len(handlers)
    /\ pc' = [pc EXCEPT ![p] = "idle"]
    /\ result' = [result EXCEPT ![p] = "returned"]
    /\ frame' = [frame EXCEPT ![p] = NoFrame]
    /\ visited' = [visited EXCEPT ![p] = <<>>]
    /\ UNCHANGED <<fcall, conf, objs, sink, handlers, added, sends, printed, queue, flag, enq, workerVars>>

(***************************************************************************)
(* QueuedNotificationHandler.NotificationThread.run                        *)
(***************************************************************************)
PcInCallbackDetached == "check"

\* where the worker is once it has called self.callback(*event): inside the
\* call, until it returns
PcInCallback == "in_call"

\* a loop that goes to get without looking at the queue
CheckQueueSkipped(h) ==
    /\ h \in objs
    /\ wpc[h] = "check"
    /\ wpc' = [wpc EXCEPT ![h] = "get"]
    /\ UNCHANGED <<mgrVars, queue, flag, enq, cur, active, entered, handled>>

\* if not self.event_queue.empty()
CheckQueue(h) ==
    /\ h \in objs
    /\ wpc[h] = "check"
    /\ wpc' = [wpc EXCEPT ![h] = IF QueueEmpty(queue[h]) THEN "wait" ELSE "get"]
    /\ UNCHANGED <<mgrVars, queue, flag, enq, cur, active, entered, handled>>

\* a get that waits while the callback of another handler's worker is running
GetSerialised(h) ==
    /\ wpc[h] = "get"
    /\ \A g \in Queued \ {h} : wpc[g] \notin {PcInCallback, "hung"}
    /\ QueueGetReady(queue[h])
    /\ cur' = [cur EXCEPT ![h] = QueueFront(queue[h])]
    /\ queue' = [queue EXCEPT ![h] = QueueRest(@)]
    /\ wpc' = [wpc EXCEPT ![h] = "call"]
    /\ UNCHANGED <<mgrVars, flag, enq, active, entered, handled>>

\* event = self.event_queue.get()
Get(h) ==
    /\ wpc[h] = "get"
    /\ QueueGetReady(queue[h])
    /\ cur' = [cur EXCEPT ![h] = QueueFront(queue[h])]
    /\ queue' = [queue EXCEPT ![h] = QueueRest(@)]
    /\ wpc' = [wpc EXCEPT ![h] = "call"]
    /\ UNCHANGED <<mgrVars, flag, enq, active, entered, handled>>

\* self.callback(*event): _handle_message is entered
Callback(h) ==
    /\ wpc[h] = "call"
    /\ handled' = [handled EXCEPT ![h] = Append(@, cur[h])]
    /\ active' = [active EXCEPT ![h] = @ + 1]
    /\ entered' = [entered EXCEPT ![h] = Len(enq[h])]
    /\ wpc' = [wpc EXCEPT ![h] = PcInCallback]
    /\ UNCHANGED <<mgrVars, queue, flag, enq, cur>>

\* _handle_message returns: back to the top of the loop
HandleReturn(h) ==
    /\ wpc[h] = PcInCallback
    /\ "return" \in sink[h]
    /\ active' = [active EXCEPT ![h] = @ - 1]
    /\ wpc' = [wpc EXCEPT ![h] = "check"]
    /\ UNCHANGED <<mgrVars, queue, flag, enq, cur, entered, handled>>

\* _handle_message raises: run has no try, the exception ends the thread
HandleRaise(h) ==
    /\ wpc[h] = PcInCallback
    /\ "raise" \in sink[h]
    /\ active' = [active EXCEPT ![h] = @ - 1]
    /\ wpc' = [wpc EXCEPT ![h] = "dead"]
    /\ UNCHANGED <<mgrVars, queue, flag, enq, cur, entered, handled>>

\* _handle_message never returns
HandleHang(h) ==
    /\ wpc[h] = PcInCallback
    /\ "hang" \in sink[h]
    /\ wpc' = [wpc EXCEPT ![h] = "hung"]
    /\ UNCHANGED <<mgrVars, queue, flag, enq, cur, active, entered, handled>>

\* self.wakeup_event.wait(timeout=10) returns because the event is set
WaitWake(h) ==
    /\ wpc[h] = "wait"
    /\ flag[h]
    /\ wpc' = [wpc EXCEPT ![h] = "clear"]
    /\ UNCHANGED <<mgrVars, queue, flag, enq, cur, active, entered, handled>>

\* self.wakeup_event.wait(timeout=10) returns because the timeout expired
WaitTimeout(h) ==
    /\ wpc[h] = "wait"
    /\ ~flag[h]
    /\ wpc' = [wpc EXCEPT ![h] = "clear"]
    /\ UNCHANGED <<mgrVars, queue, flag, enq, cur, active, entered, handled>>

\* self.wakeup_event.clear()
ClearWakeup(h) ==
    /\ wpc[h] = "clear"
    /\ flag' = [flag EXCEPT ![h] = FALSE]
    /\ wpc' = [wpc EXCEPT ![h] = "check"]
    /\ UNCHANGED <<mgrVars, queue, enq, cur, active, entered, handled>>

(***************************************************************************)
(* Specifications                                                          *)
(***************************************************************************)
\* the calls every handler of the model delivers
QueueCalls == {c \in Calls : c.kind = "message"}

\* The whole program: both producers make every call on a manager of box and
\* the flaky srv.
Next ==
    \/ \E h \in Handlers : add_handler(h)
    \/ clear
    \/ \E p \in Producers, c \in Calls : send_event(p, c.kind, c.params)
    \/ \E p \in Producers : CallSkip(p)
    \/ \E p \in Producers : CallRaise(p)
    \/ \E p \in Producers : Propagate(p)
    \/ \E p \in Producers : CallPrint(p)
    \/ \E p \in Producers : CallPut(p)
    \/ \E p \in Producers : AddEventSet(p)
    \/ \E p \in Producers : Return(p)
    \/ \E h \in Queued : CheckQueue(h)
    \/ \E h \in Queued : Get(h)
    \/ \E h \in Queued : Callback(h)
    \/ \E h \in Queued : HandleReturn(h)
    \/ \E h \in Queued : HandleRaise(h)
    \/ \E h \in Queued : HandleHang(h)
    \/ \E h \in Queued : WaitWake(h)
    \/ \E h \in Queued : WaitTimeout(h)
    \/ \E h \in Queued : ClearWakeup(h)

Spec == Init /\ [][Next]_vars

\* The flaky queued handler srv, registered once, with both producers sending
\* the events it delivers.
QueueInit == InitWith({"srv"}, [h \in Queued |-> FlakySink], <<"srv">>)

QueueNext ==
    \/ \E p \in Producers, c \in QueueCalls : send_event(p, c.kind, c.params)
    \/ \E p \in Producers : CallPut(p)
    \/ \E p \in Producers : AddEventSet(p)
    \/ \E p \in Producers : Return(p)
    \/ \E h \in Queued : CheckQueue(h)
    \/ \E h \in Queued : Get(h)
    \/ \E h \in Queued : Callback(h)
    \/ \E h \in Queued : HandleReturn(h)
    \/ \E h \in Queued : HandleRaise(h)
    \/ \E h \in Queued : HandleHang(h)
    \/ \E h \in Queued : WaitWake(h)
    \/ \E h \in Queued : WaitTimeout(h)
    \/ \E h \in Queued : ClearWakeup(h)

QueueSpec == QueueInit /\ [][QueueNext]_vars

\* The calls of one caller thread on a manager of box and srv, taken on their
\* own: the steps of NotificationManager.send_event and of the handlers'
\* send_event, which all run on the caller's thread.
\* the calls of the broadcast specification: one per kind, the message call
\* being the one whose caller passes a name of its own
FanoutCalls == {c \in Calls : c.kind = "message" => NameKey \in DOMAIN c.params}

FanoutInit == InitWith({"box", "srv"}, [h \in Queued |-> BaseSink], <<>>)

FanoutNext ==
    \/ \E h \in Handlers : add_handler(h)
    \/ clear
    \/ \E c \in FanoutCalls : send_event("p1", c.kind, c.params)
    \/ CallSkip("p1")
    \/ CallRaise("p1")
    \/ Propagate("p1")
    \/ CallPrint("p1")
    \/ CallPut("p1")
    \/ AddEventSet("p1")
    \/ Return("p1")

FanoutSpec == FanoutInit /\ [][FanoutNext]_vars

\* The queued handler bak with the base _handle_message, registered once:
\* the worker thread is scheduled fairly.
LiveInit == InitWith({"bak"}, [h \in Queued |-> BaseSink], <<"bak">>)

LiveNext ==
    \/ \E p \in Producers, c \in QueueCalls : send_event(p, c.kind, c.params)
    \/ \E p \in Producers : CallPut(p)
    \/ \E p \in Producers : AddEventSet(p)
    \/ \E p \in Producers : Return(p)
    \/ \E h \in Queued : CheckQueue(h)
    \/ \E h \in Queued : Get(h)
    \/ \E h \in Queued : Callback(h)
    \/ \E h \in Queued : HandleReturn(h)
    \/ \E h \in Queued : WaitWake(h)
    \/ \E h \in Queued : WaitTimeout(h)
    \/ \E h \in Queued : ClearWakeup(h)

\* a step of the worker thread of h
Worker(h) ==
    \/ CheckQueue(h)
    \/ Get(h)
    \/ Callback(h)
    \/ HandleReturn(h)
    \/ HandleRaise(h)
    \/ HandleHang(h)
    \/ WaitWake(h)
    \/ WaitTimeout(h)
    \/ ClearWakeup(h)

LiveSpec == LiveInit /\ [][LiveNext]_vars /\ \A h \in Queued : WF_vars(Worker(h))

\* Two queued handlers in one manager: srv, whose _handle_message never
\* returns, registered before bak, whose _handle_message always returns.  One
\* caller sends the plain message event, which both deliver; the worker
\* threads are scheduled fairly.
PairCalls == {c \in QueueCalls : c.params = NoParams}

PairInit ==
    InitWith({"srv", "bak"},
             [h \in Queued |-> IF h = "srv" THEN {"hang"} ELSE BaseSink],
             <<"srv", "bak">>)

PairNext ==
    \/ \E c \in PairCalls : send_event("p1", c.kind, c.params)
    \/ CallPut("p1")
    \/ AddEventSet("p1")
    \/ Return("p1")
    \/ \E h \in Queued : CheckQueue(h)
    \/ \E h \in Queued : Get(h)
    \/ \E h \in Queued : Callback(h)
    \/ \E h \in Queued : HandleReturn(h)
    \/ \E h \in Queued : HandleHang(h)
    \/ \E h \in Queued : WaitWake(h)
    \/ \E h \in Queued : WaitTimeout(h)
    \/ \E h \in Queued : ClearWakeup(h)

PairSpec == PairInit /\ [][PairNext]_vars /\ \A h \in Queued : WF_vars(Worker(h))

\* safeformat on its own.  The templates are every string of at most
\* MaxTemplateLen characters over braces, key characters and the accessor and
\* conversion marks, and the templates the program itself holds; the keyword
\* arguments are none, the ones of the model's calls, and small maps over the
\* keys a, b and str.
MaxTemplateLen == 4

TemplateChars == {"{", "}", "a", "b", "0", ".", "[", "]", "!"}

Templates ==
    UNION {[1..n -> TemplateChars] : n \in 0..MaxTemplateLen}
        \cup UNION {{Formats(h)[k] : k \in DOMAIN Formats(h)} : h \in Handlers}

Kwargs ==
    {c.params : c \in Calls}
        \cup { (<<"a">> :> <<"x">>),
               (<<"a">> :> <<"x">>) @@ (<<"b">> :> <<"y", "z">>),
               (StrParam :> <<"x">>) }

FormatInit ==
    /\ \E t \in Templates, P \in Kwargs : fcall = [t |-> t, P |-> P, res |-> NoResult]
    /\ conf = [h \in Handlers |-> Constructed(h)]
    /\ objs = {}
    /\ sink = [h \in Queued |-> BaseSink]
    /\ handlers = <<>>
    /\ added = <<>>
    /\ sends = 0
    /\ pc = [p \in Producers |-> "idle"]
    /\ frame = [p \in Producers |-> NoFrame]
    /\ result = [p \in Producers |-> "none"]
    /\ visited = [p \in Producers |-> <<>>]
    /\ printed = [n |-> 0, last |-> <<>>]
    /\ queue = [h \in Queued |-> <<>>]
    /\ flag = [h \in Queued |-> FALSE]
    /\ wpc = [h \in Queued |-> "check"]
    /\ cur = [h \in Queued |-> NoEvent]
    /\ active = [h \in Queued |-> 0]
    /\ enq = [h \in Queued |-> <<>>]
    /\ entered = [h \in Queued |-> 0]
    /\ handled = [h \in Queued |-> <<>>]

\* safeformat(str, **kwargs) runs
CallSafeformat ==
    /\ fcall.res = NoResult
    /\ fcall' = [fcall EXCEPT !.res = safeformat(fcall.t, fcall.P)]
    /\ UNCHANGED <<conf, objs, sink, handlers, added, sends, pc, frame, result,
                   visited, printed, queue, flag, enq, workerVars>>

FormatNext == CallSafeformat

FormatSpec == FormatInit /\ [][FormatNext]_vars

(***************************************************************************)
(* Properties                                                              *)
(***************************************************************************)
IsPrefix(a, b) == Len(a) <= Len(b) /\ SubSeq(b, 1, Len(a)) = a

\* producer p makes a handler send_event call in this step
CallStep(p) == InLoop(p) /\ Len(visited'[p]) = Len(visited[p]) + 1

\* no sink is touched in this step: nothing printed, nothing put, no wake signal
SinksUntouched ==
    printed' = printed /\ queue' = queue /\ enq' = enq /\ flag' = flag

\* the params of a call with name bound to the handler's own name
BoundParams(h, P) ==
    [key \in DOMAIN P \cup {NameKey} |-> IF key = NameKey THEN HandlerName(h) ELSE P[key]]

\* C1: at every moment the items passed to _handle_message are a prefix of the
\* items put on the queue, in put order
C1_DeliveryOrderIsEnqueueOrder ==
    \A h \in Queued : IsPrefix(handled[h], enq[h])

C1_Witness ==
    \E h \in Queued :
        /\ Len(handled[h]) >= 2
        /\ handled[h][1] # handled[h][2]
        /\ Len(enq[h]) = MaxSends

\* C2: the worker thread never ends: after a _handle_message invocation that
\* raised it is still in its loop
C2_WorkerSurvivesRaise ==
    \A h \in Queued : wpc[h] # "dead"

\* C3: with a _handle_message that always returns and a fairly scheduled
\* worker, the n-th item put on the queue is eventually passed to
\* _handle_message
C3_EveryItemIsEventuallyHandled ==
    \A h \in Queued : \A n \in 1..MaxSends :
        (sink[h] = BaseSink /\ Len(enq[h]) >= n)
            ~> (Len(handled[h]) >= n /\ handled[h][n] = enq[h][n])

C3_Witness ==
    \E h \in Queued :
        /\ sink[h] = BaseSink
        /\ Len(enq[h]) >= 2
        /\ handled[h] = enq[h]

\* C4: a producer inside send_event can always take its next step, whatever
\* the worker is doing: it never waits for a _handle_message invocation to
\* start or to finish, and its put goes through at once
C4_ProducerNeverWaits ==
    \A p \in Producers :
        /\ (InLoop(p) /\ Target(p) \in Queued /\ Outcome(p).status = "send")
                => QueuePutReady(queue[Target(p)])
        /\ pc[p] = "set" => ENABLED AddEventSet(p)
        /\ (pc[p] = "iter" /\ ~InLoop(p)) => ENABLED Return(p)

\* the worker is stuck in an invocation that never returns, two items were put
\* on the queue after that invocation was entered, and the calls that put
\* them have returned
C4_Witness ==
    \E h \in Queued :
        /\ wpc[h] = "hung"
        /\ Len(enq[h]) >= entered[h] + 2
        /\ Len(queue[h]) >= 2
        /\ \A p \in Producers : pc[p] = "idle" /\ result[p] = "returned"

\* C5: at most one _handle_message invocation of a handler is in progress,
\* and an item leaves the queue only by the worker's get, which takes the
\* oldest one
C5_SingleFlightSolePopper ==
    /\ [](\A h \in Queued : active[h] <= 1)
    /\ [][\A h \in Queued :
            (queue'[h] # queue[h] /\ Len(queue'[h]) <= Len(queue[h]))
                => /\ wpc[h] = "get" /\ wpc'[h] = "call"
                   /\ queue'[h] = Tail(queue[h])
                   /\ pc' = pc]_vars

C5_Witness ==
    \E h \in Queued :
        /\ active[h] = 1
        /\ Len(handled[h]) >= 2
        /\ queue[h] # <<>>

\* C6: a handler send_event call with a kind outside the whitelist touches no
\* sink (nothing printed, nothing put on a queue, no wake signal set) and
\* returns normally to the loop, template or no template
C6_NotWhitelistedIsNoOp ==
    [][\A p \in Producers :
        (CallStep(p) /\ frame[p].kind \notin Whitelist(Target(p)))
            => /\ SinksUntouched
               /\ pc'[p] = "iter"
               /\ frame'[p].exc = "none"
               /\ visited'[p][Len(visited'[p])].state = "returned"]_vars

\* one call skipped by a queued handler that has a template for the kind and
\* by a handler that has none
C6_Witness ==
    \E p \in Producers :
        /\ Len(visited[p]) >= 2
        /\ \A i \in 1..2 : visited[p][i].kind \notin Whitelist(visited[p][i].h)
        /\ \E i \in 1..2 : visited[p][i].h \in Queued /\ HasFormat(visited[p][i].h, visited[p][i].kind)
        /\ \E i \in 1..2 : ~HasFormat(visited[p][i].h, visited[p][i].kind)

\* C7: a handler send_event call with a whitelisted kind that has a template
\* invokes _send_message exactly once, with that kind and the template
\* formatted with name bound to the handler's own name
C7_WhitelistedSendsExactlyOnce ==
    [][\A p \in Producers :
        (/\ CallStep(p)
         /\ frame[p].kind \in Whitelist(Target(p))
         /\ frame[p].kind \in DOMAIN Formats(Target(p)))
            => LET h   == Target(p)
                   k   == frame[p].kind
                   m   == safeformat(Formats(h)[k], BoundParams(h, frame[p].params))
               IN  /\ m.err = "none"
                   /\ flag' = flag
                   /\ IF h \in Queued
                      THEN /\ queue' = [queue EXCEPT ![h] = Append(@, <<k, m.out>>)]
                           /\ printed' = printed
                      ELSE /\ printed' = [n |-> printed.n + 1, last |-> m.out]
                           /\ queue' = queue]_vars

\* C8: a handler send_event call with a whitelisted kind that has no template
\* raises KeyError into its caller and touches no sink
C8_MissingTemplateRaises ==
    [][\A p \in Producers :
        (/\ CallStep(p)
         /\ frame[p].kind \in Whitelist(Target(p))
         /\ frame[p].kind \notin DOMAIN Formats(Target(p)))
            => /\ SinksUntouched
               /\ pc'[p] = "raising"
               /\ frame'[p].exc = "KeyError"
               /\ visited'[p][Len(visited'[p])].state = "raised"]_vars

\* KeyError out of a queued handler, after an earlier handler took the event
C8_Witness ==
    \E p \in Producers :
        /\ pc[p] = "raising"
        /\ frame[p].exc = "KeyError"
        /\ Target(p) \in Queued
        /\ queue[Target(p)] = <<>>
        /\ Len(visited[p]) = 2

\* the manager's call of producer p is over: it is returning or raising
CallOver(p) ==
    \/ pc[p] = "raising"
    \/ pc[p] = "iter" /\ ~InLoop(p)

\* C9 as stated: when the manager's send_event is over, every registered
\* position has received exactly one call, in registration order, with the
\* call's kind and parameters
C9_EveryPositionCalledOnce ==
    \A p \in Producers :
        CallOver(p) =>
            /\ Len(visited[p]) = Len(handlers)
            /\ \A i \in 1..Len(visited[p]) :
                /\ visited[p][i].pos = i
                /\ visited[p][i].h = handlers[i]
                /\ visited[p][i].kind = frame[p].kind
                /\ visited[p][i].params = frame[p].params

\* C9 amended: the calls are made one at a time in registration order, each
\* with the call's kind and parameters, a call beginning only when the one
\* before it has returned; every position up to and including the first whose
\* call raises receives exactly one call, every position when none raises
C9_CallsFollowRegistrationOrder ==
    \A p \in Producers :
        /\ Len(visited[p]) <= Len(handlers)
        /\ \A i \in 1..Len(visited[p]) :
            /\ visited[p][i].pos = i
            /\ visited[p][i].h = handlers[i]
            /\ visited[p][i].kind = frame[p].kind
            /\ visited[p][i].params = frame[p].params
            /\ i < Len(visited[p]) => visited[p][i].state = "returned"
        /\ (pc[p] = "iter" /\ ~InLoop(p)) =>
            /\ Len(visited[p]) = Len(handlers)
            /\ \A i \in 1..Len(visited[p]) : visited[p][i].state = "returned"
        /\ pc[p] = "raising" =>
            /\ visited[p] # <<>>
            /\ visited[p][Len(visited[p])].state = "raised"
        /\ pc[p] = "idle" => visited[p] = <<>>

\* a call over three positions that hold two different handlers, none raising
C9_Witness ==
    \E p \in Producers :
        /\ pc[p] = "iter" /\ ~InLoop(p)
        /\ Len(visited[p]) = 3
        /\ visited[p][1].h # visited[p][2].h
        /\ printed.n >= 1
        /\ \E h \in Queued : queue[h] # <<>>

\* C10: once a handler's send_event has raised, the manager makes no further
\* handler call: the next step of the producer hands the exception to the
\* manager's caller; the handlers before the raising one had all returned
C10_RaiseAbortsBroadcast ==
    [][\A p \in Producers :
        /\ (pc[p] # "raising" /\ pc'[p] = "raising")
            => /\ Len(visited'[p]) = frame[p].idx + 1
               /\ \A i \in 1..frame[p].idx : visited'[p][i].state = "returned"
               /\ frame'[p].exc \notin {"none", ""}
        /\ (pc[p] = "raising" /\ pc'[p] # "raising")
            => /\ pc'[p] = "idle"
               /\ result'[p] = frame[p].exc
               /\ SinksUntouched]_vars

\* the error has reached the caller; the handler at position 1 had printed the
\* event, the one at position 2 raised and the same handler at position 3 got
\* nothing
C10_Witness ==
    \E p \in Producers :
        /\ pc[p] = "idle"
        /\ result[p] = "KeyError"
        /\ sends = 1
        /\ handlers = <<"box", "srv", "box">>
        /\ printed.n = 1

\* the producer p, inside send_event, can take its next step now: its put is
\* ready (the unprimed conjuncts of CallPut), or its wake signal or its return
\* is enabled
CanStep(p) ==
    \/ /\ InLoop(p)
       /\ Target(p) \in Queued
       /\ Outcome(p).status = "send"
       /\ QueuePutReady(queue[Target(p)])
    \/ ENABLED AddEventSet(p)
    \/ ENABLED Return(p)

\* C11: an exception raised by _handle_message stays on the worker thread:
\* no producer's send_event call carries or returns an exception, and with the
\* worker thread ended by the exception every producer inside send_event
\* still has its put, its wake signal and its return enabled
C11_WorkerFailureStaysOnWorker ==
    \A p \in Producers :
        /\ pc[p] # "raising"
        /\ frame[p].exc = "none"
        /\ result[p] \in {"none", "running", "returned"}
        /\ \A h \in Queued :
            (wpc[h] = "dead" /\ pc[p] # "idle") => CanStep(p)

\* the worker has ended with an exception; a send_event call made after that
\* has put its item and returned normally, and another one is in progress
C11_Witness ==
    \E h \in Queued, p, q \in Producers :
        /\ wpc[h] = "dead"
        /\ Len(enq[h]) > entered[h]
        /\ pc[p] = "idle" /\ result[p] = "returned"
        /\ pc[q] = "set"

\* the number of positions of the sequence s that hold x
Count(s, x) == Cardinality({i \in 1..Len(s) : s[i] = x})

\* the number of handler calls of producer p's manager call made on handler h
Calls_on(p, h) == Cardinality({i \in 1..Len(visited[p]) : visited[p][i].h = h})

\* C12 as stated: the manager's collection is the sequence of handlers passed
\* to add_handler since the last clear, and when a manager send_event is over
\* each handler has received as many calls as it was added
C12_EveryAddedHandlerCalled ==
    /\ handlers = added
    /\ \A p \in Producers :
        CallOver(p) => \A h \in Handlers : Calls_on(p, h) = Count(added, h)

\* C12 amended: the manager's collection is the sequence of handlers passed to
\* add_handler since the last clear, in call order with duplicates kept; a
\* manager send_event that runs to its end has called each handler as many
\* times as it was added, and none at all when the collection was cleared
C12_CollectionIsAddsSinceClear ==
    /\ handlers = added
    /\ \A p \in Producers :
        (pc[p] = "iter" /\ ~InLoop(p))
            => \A h \in Handlers : Calls_on(p, h) = Count(added, h)

\* a box handler was registered and printed an event, the collection was
\* cleared, srv was added twice and a send_event has called it twice
C12_Witness ==
    \E p \in Producers :
        /\ pc[p] = "iter" /\ ~InLoop(p)
        /\ added = <<"srv", "srv">>
        /\ printed.n >= 1
        /\ Calls_on(p, "srv") = 2
        /\ Len(queue["srv"]) >= 2

\* C13: safeformat is total: every call returns a string, whatever the
\* template and the keyword arguments
C13_SafeformatIsTotal ==
    fcall.res # NoResult => fcall.res.err = "none"

\* the characters that end or structure a field name
MarkChars == {"{", "}", ".", "[", "]", "!", ":"}

\* from position i on, every brace of t belongs to a placeholder {k} with k a
\* non-empty key free of marks
RECURSIVE PlaceholdersOnly(_, _)
PlaceholdersOnly(t, i) ==
    IF i > Len(t) THEN TRUE
    ELSE IF t[i] = "}" THEN FALSE
    ELSE IF t[i] = "{" THEN
        LET e == Find(t, i + 1, {"}"})
        IN  /\ e <= Len(t)
            /\ e > i + 1
            /\ \A j \in (i + 1)..(e - 1) : t[j] \notin MarkChars
            /\ PlaceholdersOnly(t, e + 1)
    ELSE PlaceholdersOnly(t, i + 1)

\* t from position i on with each placeholder whose key is in P replaced by
\* the key's value and every other placeholder left as it is
RECURSIVE Substituted(_, _, _)
Substituted(t, i, P) ==
    IF i > Len(t) THEN <<>>
    ELSE IF t[i] = "{" THEN
        LET e   == Find(t, i + 1, {"}"})
            key == SubSeq(t, i + 1, e - 1)
        IN  (IF key \in DOMAIN P THEN P[key] ELSE SubSeq(t, i, e))
                \o Substituted(t, e + 1, P)
    ELSE <<t[i]>> \o Substituted(t, i + 1, P)

\* C14: for a template whose braces all belong to placeholders {k}, safeformat
\* returns the template with each placeholder of a present key replaced by the
\* key's value and each placeholder of an absent key kept literally, braces
\* included
C14_PlaceholdersKeptOrReplaced ==
    (fcall.res # NoResult /\ PlaceholdersOnly(fcall.t, 1))
        => /\ fcall.res.err = "none"
           /\ fcall.res.out = Substituted(fcall.t, 1, fcall.P)

\* producer p has put an item on the queue of h and has not yet set the
\* wake signal
BetweenPutAndSet(p, h) == pc[p] = "set" /\ Target(p) = h

\* C15: no wakeup is lost: the worker is never blocked in wait with the wake
\* signal clear while its queue holds an item, unless a producer is between
\* its put and its set (and is about to set the signal)
C15_NoLostWakeup ==
    \A h \in Queued :
        (wpc[h] = "wait" /\ ~flag[h] /\ queue[h] # <<>>)
            => \E p \in Producers : BetweenPutAndSet(p, h)

\* the worker found the queue empty and is blocked in wait with the signal
\* clear after an earlier wakeup and clear; a producer has since put an item
\* and is about to set the signal
C15_Witness ==
    \E h \in Queued, p \in Producers :
        /\ wpc[h] = "wait" /\ ~flag[h]
        /\ queue[h] # <<>>
        /\ BetweenPutAndSet(p, h)
        /\ handled[h] # <<>>

\* C16: while the _handle_message of one queued handler never returns, the
\* manager's caller still has its next step enabled, and every other queued
\* handler whose _handle_message always returns still hands each item of its
\* own queue to its _handle_message
C16_QueuedHandlersIndependent ==
    /\ [](\A g \in Queued : \A p \in Producers :
            (wpc[g] = "hung" /\ pc[p] # "idle") => CanStep(p))
    /\ \A h \in Queued : \A n \in 1..MaxSends :
        (sink[h] = BaseSink /\ Len(enq[h]) >= n)
            ~> (Len(handled[h]) >= n /\ handled[h][n] = enq[h][n])

\* the first handler's worker is stuck in a call that never returns, and the
\* second handler has delivered an item that was sent after that call began
C16_Witness ==
    /\ handlers = <<"srv", "bak">>
    /\ wpc["srv"] = "hung"
    /\ Len(handled["bak"]) > entered["srv"]
    /\ handled["bak"] = enq["bak"]
    /\ pc["p1"] = "idle" /\ result["p1"] = "returned"

\* a step of a send_event call: a producer enters, advances in or leaves
\* NotificationManager.send_event or a handler's send_event
SendEventStep ==
    pc' # pc \/ frame' # frame \/ visited' # visited \/ sends' # sends

\* C17: a step of send_event, on the manager or on a handler, leaves the
\* manager's collection and every handler's name, whitelist and template map
\* as they are; of the program's state it changes at most the queue and the
\* wake signal of the queued handler being called and the printed output
C17_SendEventFrame ==
    [][SendEventStep =>
        /\ handlers' = handlers
        /\ conf' = conf
        /\ <<objs, sink, wpc, cur, active>>' = <<objs, sink, wpc, cur, active>>
        /\ \A h \in Queued :
            (queue'[h] # queue[h] \/ flag'[h] # flag[h])
                => \E p \in Producers :
                    /\ pc[p] \in {"iter", "set"}
                    /\ frame[p].idx < Len(handlers)
                    /\ Target(p) = h]_vars

\* send_event calls have printed, put on the queue and set the wake signal,
\* and the collection and the handlers' fields are as constructed and added
C17_Witness ==
    /\ sends = MaxSends
    /\ \A p \in Producers : pc[p] = "idle"
    /\ printed.n >= 1
    /\ queue["srv"] # <<>> /\ flag["srv"]
    /\ handlers = <<"box", "srv">>
    /\ \A h \in Handlers : conf[h] = Constructed(h)

\* the item the worker of h has taken from the queue and not yet passed to
\* _handle_message: the local variable event between get and the call
InHand(h) == IF wpc[h] = "call" THEN <<cur[h]>> ELSE <<>>

\* C18 as stated: in every reachable state the items handed to
\* _handle_message followed by the items still on the queue are the items
\* enqueued so far
C18_HandledThenPendingIsEnqueued ==
    \A h \in Queued : handled[h] \o queue[h] = enq[h]

\* C18 amended: in every reachable state the items handed to _handle_message,
\* followed by the item the worker holds between its get and the call (if
\* any), followed by the items still on the queue, are the items enqueued so
\* far, in put order
C18_QueueConservation ==
    \A h \in Queued : handled[h] \o InHand(h) \o queue[h] = enq[h]

\* all three parts at once: one item handled, one in the worker's hand, one
\* still on the queue
C18_Witness ==
    \E h \in Queued :
        /\ handled[h] # <<>>
        /\ InHand(h) # <<>>
        /\ queue[h] # <<>>
        /\ Len(enq[h]) = MaxSends

\* C19: whenever the worker is about to execute event_queue.get(), after
\* its separate non-empty check, the queue holds an item, so the get returns
\* at once, whatever the producers did in between
C19_GetNeverBlocks ==
    \A h \in Queued : wpc[h] = "get" => QueueGetReady(queue[h])

\* the worker is about to get while a producer has put a further item since
\* the check and is about to set the wake signal
C19_Witness ==
    \E h \in Queued, p \in Producers :
        /\ wpc[h] = "get"
        /\ Len(queue[h]) >= 2
        /\ BetweenPutAndSet(p, h)

====
